---- MODULE Spec2Model ----
(***************************************************************************)
(* EarthquakeData (src/earthquake/eew.py): the derived prediction state    *)
(* (_expected_intensity, _city_max_intensity and the two P/S distance      *)
(* interpolators), calc_expected_intensity that fills it, and the queries  *)
(* that read it.                                                           *)
(*                                                                         *)
(* Spec      one caller: every call and query runs to its end.             *)
(* SpecConc  two threads inside calc_expected_intensity on one object,     *)
(*           interleaved at the field reads and writes.                    *)
(***************************************************************************)
EXTENDS Integers, Sequences, FiniteSets, TLC

\* ------------------------------------------------------------------ bounds
MaxMag == 2      \* magnitudes 1..MaxMag
MaxDepth == 1    \* depths 0..MaxDepth
MaxPos == 2      \* epicentre positions 0..MaxPos on the line of the regions
MaxTime == 8     \* query times 0..MaxTime

\* ----------------------------------------------------------------- helpers
Abs(x) == IF x < 0 THEN 0 - x ELSE x
Max2(a, b) == IF a >= b THEN a ELSE b
Min2(a, b) == IF a <= b THEN a ELSE b
Range(s) == {s[i] : i \in DOMAIN s}

\* Python values: None, an unset __slots__ attribute, a dict, MISSING, a list.
None == [tag |-> "None"]
Unset == [tag |-> "unset"]
Dict(f) == [tag |-> "dict", items |-> f]
MISSING == [tag |-> "MISSING"]
List(s) == [tag |-> "list", items |-> s]
ValueError == [tag |-> "ValueError"]
NonFinite == [tag |-> "nonfinite"]
Float(n, d) == [tag |-> "float", num |-> n, den |-> d]

\* ------------------------------------------- region catalog (location.py)
\* Three catalog regions in two cities; region 4 is a RegionLocation a caller
\* can build that the catalog does not contain.
REGIONS == <<1, 2, 3>>
CityOrder == <<"A", "B">>
REGIONS_GROUP_BY_CITY ==
  [city \in Range(CityOrder) |-> IF city = "A" THEN <<1, 2>> ELSE <<3>>]
ExtraRegions == {4}
Universe == Range(REGIONS) \cup ExtraRegions
RegionPos(code) == 2 * (code - 1)

\* The lists a caller passes: every subset of the regions in ascending code
\* order, the catalog in reverse order, and the default MISSING.
RECURSIVE Ascending(_)
Ascending(S) ==
  IF S = {} THEN <<>>
  ELSE LET m == CHOOSE x \in S : \A y \in S : x <= y
       IN <<m>> \o Ascending(S \ {m})
Reverse(s) == [i \in 1..Len(s) |-> s[Len(s) + 1 - i]]
RegionArgs ==
  {MISSING} \cup {List(Ascending(S)) : S \in SUBSET Universe}
            \cup {List(Reverse(REGIONS))}

\* ------------------------------------------------ the model (model.py)
DistFloor == 1
Distance(quake, code) == Max2(DistFloor, Abs(RegionPos(code) - quake.pos) + quake.depth)
PTravelTime(dist) == dist
STravelTime(dist) == 2 * dist
\* Intensity: the ordinal of the band the ground-motion proxy falls in; its
\* numeric backing value (_float_value) is that rank.
IntensityOf(quake, dist) ==
  LET proxy == Max2(0, 2 * quake.mag + 4 - dist)
      rank == proxy \div 2
  IN [value |-> rank, float_value |-> rank]
RegionExpectedIntensity(quake, code) ==
  LET dist == Distance(quake, code)
  IN [region |-> code,
      intensity |-> IntensityOf(quake, dist),
      distance |-> dist,
      p_arrival_time |-> PTravelTime(dist),
      s_arrival_time |-> STravelTime(dist)]
\* calculate_expected_intensity_and_travel_time(earthquake, regions): the
\* table keyed by region code and the three sequences in iteration order.
calculate_expected_intensity_and_travel_time(quake, regions) ==
  LET list == IF regions.tag = "MISSING" THEN REGIONS ELSE regions.items
  IN [table |-> [code \in Range(list) |-> RegionExpectedIntensity(quake, code)],
      distances |-> [i \in 1..Len(list) |-> Distance(quake, list[i])],
      p_travel_time |-> [i \in 1..Len(list) |-> PTravelTime(Distance(quake, list[i]))],
      s_travel_time |-> [i \in 1..Len(list) |-> STravelTime(Distance(quake, list[i]))]]

\* ------------------------------------------ scipy.interpolate.interp1d
\* argsort(x, kind="mergesort"): the indices of x in ascending order, stable.
RECURSIVE ArgSort(_, _)
ArgSort(x, n) ==
  IF n = 0 THEN <<>>
  ELSE LET prev == ArgSort(x, n - 1)
           pos == Cardinality({i \in 1..Len(prev) : x[prev[i]] <= x[n]})
       IN SubSeq(prev, 1, pos) \o <<n>> \o SubSeq(prev, pos + 1, Len(prev))
\* interp1d(x, y, fill_value="extrapolate"): linear, the knots sorted by x;
\* it refuses arrays of different lengths and an empty x.
interp1d(x, y) ==
  IF Len(x) # Len(y) \/ Len(x) < 1 THEN ValueError
  ELSE LET ind == ArgSort(x, Len(x))
       IN [tag |-> "interp1d",
           x |-> [i \in 1..Len(x) |-> x[ind[i]]],
           y |-> [i \in 1..Len(x) |-> y[ind[i]]]]
\* f(t), interp1d._call_linear: the segment is found by searchsorted and
\* clipped to 1..n-1; the slope is (y_hi - y_lo) / (x_hi - x_lo), which is
\* nan or inf when the two knots share their abscissa.
CallLinear(f, t) ==
  LET n == Len(f.x)
      ins == Cardinality({i \in 1..n : f.x[i] < t})
      hi0 == Min2(Max2(ins, 1), n - 1)
      lo0 == hi0 - 1
      hi == hi0 + 1
      lo == IF lo0 < 0 THEN n + lo0 + 1 ELSE lo0 + 1
      den == f.x[hi] - f.x[lo]
  IN IF den = 0 THEN NonFinite
     ELSE Float((f.y[hi] - f.y[lo]) * (t - f.x[lo]) + f.y[lo] * den, den)

\* ------------------------------------------------- city aggregation
\* The lookups of lines 160-166 in evaluation order: for each city of
\* REGIONS_GROUP_BY_CITY, each region of that city.
CatalogLookups ==
  LET of(c) == [i \in 1..Len(REGIONS_GROUP_BY_CITY[c]) |->
                  [city |-> c, code |-> REGIONS_GROUP_BY_CITY[c][i]]]
  IN of(CityOrder[1]) \o of(CityOrder[2])
\* max(..., key=lambda x: x.intensity._float_value): the first element whose
\* key no other element exceeds.
MinByKey(s) ==
  LET i == CHOOSE i \in 1..Len(s) :
             /\ \A j \in 1..Len(s) : s[j].intensity.float_value >= s[i].intensity.float_value
             /\ \A j \in 1..(i - 1) : s[j].intensity.float_value > s[i].intensity.float_value
  IN s[i]
LastMaxByKey(s) ==
  LET i == CHOOSE i \in 1..Len(s) :
             /\ \A j \in 1..Len(s) : s[j].intensity.float_value <= s[i].intensity.float_value
             /\ \A j \in (i + 1)..Len(s) : s[j].intensity.float_value < s[i].intensity.float_value
  IN s[i]
MaxByKey(s) ==
  LET i == CHOOSE i \in 1..Len(s) :
             /\ \A j \in 1..Len(s) : s[j].intensity.float_value <= s[i].intensity.float_value
             /\ \A j \in 1..(i - 1) : s[j].intensity.float_value < s[i].intensity.float_value
  IN s[i]
\* The entries found for the regions of city c, in the city's region order.
EntriesOf(got, c) ==
  LET idx == SelectSeq([i \in 1..Len(got) |-> i],
                       LAMBDA i : CatalogLookups[i].city = c)
  IN [k \in 1..Len(idx) |-> got[idx[k]]]
\* The dict comprehension's result from the entries the lookups returned.
CityMaxFrom(got) ==
  [c \in Range(CityOrder) |-> MaxByKey(EntriesOf(got, c))]

\* ------------------------------------------------------------- state
VARIABLES
  eq,                               \* _location, _magnitude, _depth
  expected_intensity,               \* _expected_intensity
  city_max_intensity,               \* _city_max_intensity
  p_arrival_distance_interp_func,   \* _p_arrival_distance_interp_func
  s_arrival_distance_interp_func,   \* _s_arrival_distance_interp_func
  calc_called,                      \* calc_expected_intensity was entered
  last,                             \* the last operation and how it ended
  pc,                               \* per thread: its place in the call
  regions_arg,                      \* per thread: the regions parameter
  intensities,                      \* per thread: the local of line 158
  found                             \* per thread: entries looked up so far

fields == <<expected_intensity, city_max_intensity,
            p_arrival_distance_interp_func, s_arrival_distance_interp_func>>
locals == <<pc, regions_arg, intensities, found>>
vars == <<eq, fields, calc_called, last, locals>>

Threads == {1, 2}
Earthquakes == [mag : 1..MaxMag, depth : 0..MaxDepth, pos : 0..MaxPos]
QueryTimes == 0..MaxTime

\* The object as one value.
Self ==
  [expected_intensity |-> expected_intensity,
   city_max_intensity |-> city_max_intensity,
   p_func |-> p_arrival_distance_interp_func,
   s_func |-> s_arrival_distance_interp_func]
SetSelf(obj) ==
  /\ expected_intensity' = obj.expected_intensity
  /\ city_max_intensity' = obj.city_max_intensity
  /\ p_arrival_distance_interp_func' = obj.p_func
  /\ s_arrival_distance_interp_func' = obj.s_func

\* __init__: the two dicts are None, the interpolator slots are not assigned.
NewObject ==
  [expected_intensity |-> None,
   city_max_intensity |-> None,
   p_func |-> Unset,
   s_func |-> Unset]
NoOp == [op |-> "init", regions |-> None, time |-> 0, before_calc |-> TRUE,
         outcome |-> "returned", value |-> None]

Init ==
  /\ eq \in Earthquakes
  /\ expected_intensity = NewObject.expected_intensity
  /\ city_max_intensity = NewObject.city_max_intensity
  /\ p_arrival_distance_interp_func = NewObject.p_func
  /\ s_arrival_distance_interp_func = NewObject.s_func
  /\ calc_called = FALSE
  /\ last = NoOp
  /\ pc = [t \in Threads |-> "idle"]
  /\ regions_arg = [t \in Threads |-> MISSING]
  /\ intensities = [t \in Threads |-> None]
  /\ found = [t \in Threads |-> <<>>]

\* ------------------------------------- calc_expected_intensity, by line
KeyError == [tag |-> "KeyError"]
AttributeError == [tag |-> "AttributeError"]

\* Line 159: self._expected_intensity = dict(intensities).  The mutant updates
\* the dict that is there instead of replacing it.
StoreExpectedIntensityMerged(obj, intens) ==
  LET old == IF obj.expected_intensity = None THEN <<>> ELSE obj.expected_intensity.items
  IN [obj EXCEPT !.expected_intensity =
        Dict([code \in DOMAIN old \cup DOMAIN intens.table |->
                IF code \in DOMAIN intens.table THEN intens.table[code] ELSE old[code]])]
StoreExpectedIntensity(obj, intens) ==
  [obj EXCEPT !.expected_intensity = Dict(intens.table)]
\* Line 162: self._expected_intensity[region.code] for the k-th lookup; a
\* plain dict raises KeyError for a code it does not hold.  The mutant is a
\* .get() with a default entry.
LookupWithDefault(obj, k) ==
  LET code == CatalogLookups[k].code
      items == obj.expected_intensity.items
  IN IF code \in DOMAIN items THEN items[code]
     ELSE [region |-> code, intensity |-> [value |-> 0, float_value |-> 0],
           distance |-> 0, p_arrival_time |-> 0, s_arrival_time |-> 0]
Lookup(obj, k) ==
  LET code == CatalogLookups[k].code
      items == obj.expected_intensity.items
  IN IF code \in DOMAIN items THEN items[code] ELSE KeyError
\* Lines 160-166: the assignment, made once every lookup has succeeded.
StoreCityMaxIntensity(obj, got) ==
  [obj EXCEPT !.city_max_intensity = Dict(CityMaxFrom(got))]
\* Lines 167-169 and 170-172: the interpolators built from the local value.
PInterp(intens) == interp1d(intens.p_travel_time, intens.distances)
SInterp(intens) == interp1d(intens.s_travel_time, intens.distances)

\* One whole call on obj: the object it leaves, how it ended, what it returned.
RunCall(obj, quake, regions) ==
  LET intens == calculate_expected_intensity_and_travel_time(quake, regions)
      o1 == StoreExpectedIntensity(obj, intens)
      n == Len(CatalogLookups)
      missing == \E k \in 1..n : Lookup(o1, k) = KeyError
      o2 == StoreCityMaxIntensity(o1, [k \in 1..n |-> Lookup(o1, k)])
      p == PInterp(intens)
      o3 == [o2 EXCEPT !.p_func = p]
      s == SInterp(intens)
      o4 == [o3 EXCEPT !.s_func = s]
  IN IF missing THEN [obj |-> o1, outcome |-> "KeyError", value |-> None]
     ELSE IF p = ValueError THEN [obj |-> o2, outcome |-> "ValueError", value |-> None]
     ELSE IF s = ValueError THEN [obj |-> o3, outcome |-> "ValueError", value |-> None]
     ELSE [obj |-> o4, outcome |-> "returned", value |-> o4.expected_intensity]

\* get_travel_distance(time): reading a slot that was never assigned raises
\* AttributeError; float() of nan or inf does not raise.  The mutant answers
\* None for an interpolator that is not there.
GetTravelDistanceOrNone(obj, t) ==
  IF obj.p_func = Unset \/ obj.s_func = Unset
  THEN [outcome |-> "returned", value |-> None]
  ELSE [outcome |-> "returned",
        value |-> <<CallLinear(obj.p_func, t), CallLinear(obj.s_func, t)>>]
GetTravelDistanceResult(obj, t) ==
  IF obj.p_func = Unset \/ obj.s_func = Unset
  THEN [outcome |-> "AttributeError", value |-> None]
  ELSE [outcome |-> "returned",
        value |-> <<CallLinear(obj.p_func, t), CallLinear(obj.s_func, t)>>]

\* --------------------------------------------------- one caller (Spec)
CalcExpectedIntensity(regions) ==
  LET r == RunCall(Self, eq, regions)
  IN /\ SetSelf(r.obj)
     /\ calc_called' = TRUE
     /\ last' = [op |-> "calc_expected_intensity", regions |-> regions, time |-> 0,
                 before_calc |-> ~calc_called,
                 outcome |-> r.outcome, value |-> r.value]
     /\ UNCHANGED <<eq, locals>>

ReadExpectedIntensity ==
  /\ last' = [op |-> "expected_intensity", regions |-> None, time |-> 0,
              before_calc |-> ~calc_called,
              outcome |-> "returned", value |-> expected_intensity]
  /\ UNCHANGED <<eq, fields, calc_called, locals>>

ReadCityMaxIntensity ==
  /\ last' = [op |-> "city_max_intensity", regions |-> None, time |-> 0,
              before_calc |-> ~calc_called,
              outcome |-> "returned", value |-> city_max_intensity]
  /\ UNCHANGED <<eq, fields, calc_called, locals>>

GetTravelDistance(t) ==
  LET r == GetTravelDistanceResult(Self, t)
  IN /\ last' = [op |-> "get_travel_distance", regions |-> None, time |-> t,
                 before_calc |-> ~calc_called,
                 outcome |-> r.outcome, value |-> r.value]
     /\ UNCHANGED <<eq, fields, calc_called, locals>>

Next ==
  \/ \E regions \in RegionArgs : CalcExpectedIntensity(regions)
  \/ ReadExpectedIntensity
  \/ ReadCityMaxIntensity
  \/ \E t \in QueryTimes : GetTravelDistance(t)

Spec == Init /\ [][Next]_vars

\* ------------------------------------- two threads in the call (SpecConc)
\* A thread's raise or return, as the caller sees it.
Ended(t, how, v) ==
  last' = [op |-> "calc_expected_intensity", regions |-> regions_arg[t], time |-> 0,
           before_calc |-> FALSE, outcome |-> how, value |-> v]

\* Line 158: the call is entered and the model's result is bound to the local.
Enter(t, regions) ==
  /\ pc[t] = "idle"
  /\ regions_arg' = [regions_arg EXCEPT ![t] = regions]
  /\ intensities' = [intensities EXCEPT ![t] =
                       calculate_expected_intensity_and_travel_time(eq, regions)]
  /\ pc' = [pc EXCEPT ![t] = "line159"]
  /\ calc_called' = TRUE
  /\ UNCHANGED <<eq, fields, last, found>>

\* Line 159.
Line159(t) ==
  /\ pc[t] = "line159"
  /\ SetSelf(StoreExpectedIntensity(Self, intensities[t]))
  /\ found' = [found EXCEPT ![t] = <<>>]
  /\ pc' = [pc EXCEPT ![t] = "line162"]
  /\ UNCHANGED <<eq, calc_called, last, regions_arg, intensities>>

\* Line 162, one lookup: it reads the field as it is now.  The mutant appends
\* to one accumulator that every thread in the call shares.
Line162Shared(t) ==
  /\ pc[t] = "line162"
  /\ LET k == Len(found[t]) + 1
         e == Lookup(Self, k)
     IN IF e = KeyError
        THEN /\ pc' = [pc EXCEPT ![t] = "raised"]
             /\ Ended(t, "KeyError", None)
             /\ UNCHANGED found
        ELSE /\ found' = [u \in Threads |->
                            IF pc[u] = "line162" THEN Append(found[u], e) ELSE found[u]]
             /\ pc' = [u \in Threads |->
                         IF pc[u] = "line162" /\ Len(found[u]) + 1 = Len(CatalogLookups)
                         THEN "line160" ELSE pc[u]]
             /\ UNCHANGED last
  /\ UNCHANGED <<eq, fields, calc_called, regions_arg, intensities>>
Line162(t) ==
  /\ pc[t] = "line162"
  /\ LET k == Len(found[t]) + 1
         e == Lookup(Self, k)
     IN IF e = KeyError
        THEN /\ pc' = [pc EXCEPT ![t] = "raised"]
             /\ Ended(t, "KeyError", None)
             /\ UNCHANGED found
        ELSE /\ found' = [found EXCEPT ![t] = Append(found[t], e)]
             /\ pc' = [pc EXCEPT ![t] =
                         IF k = Len(CatalogLookups) THEN "line160" ELSE "line162"]
             /\ UNCHANGED last
  /\ UNCHANGED <<eq, fields, calc_called, regions_arg, intensities>>

\* Line 160: the comprehension's dict is assigned.
Line160(t) ==
  /\ pc[t] = "line160"
  /\ SetSelf(StoreCityMaxIntensity(Self, found[t]))
  /\ pc' = [pc EXCEPT ![t] = "line167"]
  /\ UNCHANGED <<eq, calc_called, last, regions_arg, intensities, found>>

\* Lines 167-169.
Line167(t) ==
  /\ pc[t] = "line167"
  /\ LET p == PInterp(intensities[t])
     IN IF p = ValueError
        THEN /\ pc' = [pc EXCEPT ![t] = "raised"]
             /\ Ended(t, "ValueError", None)
             /\ UNCHANGED fields
        ELSE /\ SetSelf([Self EXCEPT !.p_func = p])
             /\ pc' = [pc EXCEPT ![t] = "line170"]
             /\ UNCHANGED last
  /\ UNCHANGED <<eq, calc_called, regions_arg, intensities, found>>

\* Lines 170-172.
Line170(t) ==
  /\ pc[t] = "line170"
  /\ LET s == SInterp(intensities[t])
     IN IF s = ValueError
        THEN /\ pc' = [pc EXCEPT ![t] = "raised"]
             /\ Ended(t, "ValueError", None)
             /\ UNCHANGED fields
        ELSE /\ SetSelf([Self EXCEPT !.s_func = s])
             /\ pc' = [pc EXCEPT ![t] = "line173"]
             /\ UNCHANGED last
  /\ UNCHANGED <<eq, calc_called, regions_arg, intensities, found>>

\* Line 173: the field is read again for the return value.
Line173(t) ==
  /\ pc[t] = "line173"
  /\ pc' = [pc EXCEPT ![t] = "returned"]
  /\ Ended(t, "returned", expected_intensity)
  /\ UNCHANGED <<eq, fields, calc_called, regions_arg, intensities, found>>

NextConc ==
  \E t \in Threads :
    \/ \E regions \in RegionArgs : Enter(t, regions)
    \/ Line159(t)
    \/ Line162(t)
    \/ Line160(t)
    \/ Line167(t)
    \/ Line170(t)
    \/ Line173(t)

SpecConc == Init /\ [][NextConc]_vars

\* =============================================================== claims
AllUnset ==
  /\ expected_intensity = None
  /\ city_max_intensity = None
  /\ p_arrival_distance_interp_func = Unset
  /\ s_arrival_distance_interp_func = Unset
AllSet ==
  /\ expected_intensity # None
  /\ city_max_intensity # None
  /\ p_arrival_distance_interp_func # Unset
  /\ s_arrival_distance_interp_func # Unset
CalcEnded == last.op = "calc_expected_intensity"
CalcReturned == CalcEnded /\ last.outcome = "returned"
CatalogCodes == {CatalogLookups[k].code : k \in 1..Len(CatalogLookups)}
Ordinal(code) == expected_intensity.items[code].intensity.value

\* C1: in every state between operations (a new object, after any calls,
\* after a call that raised) expected_intensity, city_max_intensity and the
\* two interpolators are all unset or all set.
C1_AllOrNothing == AllUnset \/ AllSet

\* C2 as stated: on an object calc_expected_intensity has not run on, each of
\* expected_intensity, city_max_intensity and get_travel_distance(t) raises.
C2_QueryBeforeCalcRaises ==
  (last.op \in {"expected_intensity", "city_max_intensity", "get_travel_distance"}
     /\ last.before_calc)
  => last.outcome # "returned"
\* C2 amended: before calc_expected_intensity has run, the two properties
\* return None and get_travel_distance(t) raises AttributeError.
C2_QueryBeforeCalc ==
  last.before_calc =>
    /\ last.op \in {"expected_intensity", "city_max_intensity"}
         => (last.outcome = "returned" /\ last.value = None)
    /\ last.op = "get_travel_distance" => last.outcome = "AttributeError"
C2_Witness ==
  /\ last.op = "get_travel_distance"
  /\ last.before_calc
  /\ last.outcome = "AttributeError"
  /\ expected_intensity = None

C4_CityMax ==
  CalcReturned =>
    \A c \in DOMAIN REGIONS_GROUP_BY_CITY :
      LET codes == Range(REGIONS_GROUP_BY_CITY[c])
          e == city_max_intensity.items[c]
      IN /\ DOMAIN city_max_intensity.items = DOMAIN REGIONS_GROUP_BY_CITY
         /\ e.region \in codes
         /\ e = expected_intensity.items[e.region]
         /\ \A r \in codes : Ordinal(r) <= e.intensity.value
         /\ \A r \in codes : codes = {r} => e = expected_intensity.items[r]
C4_Witness ==
  /\ CalcReturned
  /\ Ordinal(2) > Ordinal(1)
  /\ city_max_intensity.items["A"].region = 2
  /\ city_max_intensity.items["B"].region = 3

\* C5: a call with a non-empty region list, also one covering only part of
\* the catalog, returns a mapping with exactly one entry per input region.
C5_OneEntryPerRegion ==
  (CalcEnded /\ last.regions.tag = "list" /\ last.regions.items # <<>>)
  => /\ last.outcome = "returned"
     /\ DOMAIN last.value.items = Range(last.regions.items)

\* C6: a call with an empty region list raises nothing and returns, and
\* stores as expected_intensity, an empty table.
C6_EmptyListAccepted ==
  (CalcEnded /\ last.regions = List(<<>>))
  => /\ last.outcome = "returned"
     /\ last.value = Dict(<<>>)
     /\ expected_intensity = Dict(<<>>)

\* C7: when the per-region table lacks the code of a region of some city of
\* the grouping, the call fails at the aggregation (KeyError) and assigns no
\* city_max_intensity.
C7_UnknownRegionFails ==
  [][(last'.op = "calc_expected_intensity"
        /\ \E code \in CatalogCodes :
             code \notin DOMAIN calculate_expected_intensity_and_travel_time(
                                  eq, last'.regions).table)
     => (last'.outcome = "KeyError" /\ city_max_intensity' = city_max_intensity)]_vars
C7_Witness ==
  /\ CalcEnded
  /\ last.outcome = "KeyError"
  /\ last.regions = List(<<1, 3>>)
  /\ DOMAIN expected_intensity.items = {1, 3}

\* C8: once a call has returned, get_travel_distance(t) returns a pair of
\* finite distances for every t, below, inside and above the sampled travel
\* times, also when two regions have the same travel time.
C8_DistanceDefined ==
  (last.op = "get_travel_distance"
     /\ p_arrival_distance_interp_func # Unset
     /\ s_arrival_distance_interp_func # Unset)
  => /\ last.outcome = "returned"
     /\ last.value[1].tag = "float"
     /\ last.value[2].tag = "float"

\* C9: two threads run calc_expected_intensity on one object with the same
\* regions argument; whatever the interleaving, once both calls have ended
\* the cached state equals the state one uninterrupted call leaves.
BothEnded == \A t \in Threads : pc[t] \in {"returned", "raised"}
====
